---- MODULE Spec2Model ----
(***************************************************************************)
(* Route-map construction and handler-chain compilation of the Starlite    *)
(* application object (starlite/app.py), with the exception classes of     *)
(* starlite/exceptions/exceptions.py.  Spec and SpecDispatch cover         *)
(* registration and dispatch, SpecShell the application-level wrap and     *)
(* the entry point, SpecReaders a register call that runs statement by     *)
(* statement beside readers, SpecRaw registration of raw ASGI routes.      *)
(*                                                                         *)
(* Strings are modelled as sequences of tokens: "/items/{id:int}" is       *)
(* <<"/", "items", "/", "{", "id:int", "}">>.  A dict key of the route map *)
(* is such a token sequence, and a node of the nested dict is addressed by *)
(* the sequence of keys that leads to it from self.route_map (the top dict *)
(* itself has the address <<>>).  An optional dict entry is <<>> when the  *)
(* key is absent and <<v>> when it is present with the value v.            *)
(***************************************************************************)
EXTENDS Integers, Sequences, FiniteSets, TLC

VARIABLES
    phase,          \* position in the life of the application object
    routes,         \* self.routes: the route objects, in list order
    registered,     \* self._registered_routes (indices into routes)
    static_paths,   \* self._static_paths
    plain_routes,   \* self.plain_routes
    route_map,      \* self.route_map, a function from node addresses to nodes
    build_log,      \* one entry per call of _build_route_middleware_stack
    ncalls,         \* number of register calls made so far
    raised,         \* exception raised by the last register call, or "none"
    called,         \* the value passed to the last register call, or "none"
    node_of,        \* for each registered route, the node _add_node_to_route_map returned
    response,       \* outcome of the last dispatched request, or <<>>
    compression_config,  \* self.compression_config
    allowed_hosts,       \* self.allowed_hosts
    cors_config,         \* self.cors_config
    csrf_config,         \* self.csrf_config
    app_exception_handlers,  \* self.exception_handlers
    app_asgi_handler,   \* self.asgi_handler: the layers around the router, outermost first
    last_call,      \* outcome of the last call of the application, or <<>>
    writer,         \* position of a register call that runs beside readers
    observed,       \* what the last reader found in the route map, or <<>>
    http_exception  \* the HTTP exception constructed last with its arguments, or <<>>

routing_vars == <<phase, routes, registered, static_paths, plain_routes, route_map,
                  build_log, ncalls, raised, called, node_of, response>>

shell_vars == <<compression_config, allowed_hosts, cors_config, csrf_config,
                app_exception_handlers, app_asgi_handler, last_call>>

reader_vars == <<writer, observed>>

vars == <<routing_vars, shell_vars, reader_vars, http_exception>>

\* ------------------------------------------------------------------ bounds

MaxCalls == 3

\* ------------------------------------------------------------ exceptions

\* MethodNotAllowedException carrying the status code of NotFoundException
DefaultStatusCode_MethodAsNotFound(cls) ==
    CASE cls = "ValidationException" -> 400
      [] cls = "NotAuthorizedException" -> 401
      [] cls = "PermissionDeniedException" -> 403
      [] cls = "NotFoundException" -> 404
      [] cls = "MethodNotAllowedException" -> 404
      [] cls = "ServiceUnavailableException" -> 503
      [] OTHER -> 500

\* status_code class attribute of each exception class
DefaultStatusCode(cls) ==
    CASE cls = "ValidationException" -> 400
      [] cls = "NotAuthorizedException" -> 401
      [] cls = "PermissionDeniedException" -> 403
      [] cls = "NotFoundException" -> 404
      [] cls = "MethodNotAllowedException" -> 405
      [] cls = "ServiceUnavailableException" -> 503
      [] OTHER -> 500

ImproperlyConfiguredException == "ImproperlyConfiguredException"

\* HTTPException and the subclasses that only set status_code
HTTPExceptionClasses ==
    {"HTTPException", "ImproperlyConfiguredException", "ValidationException",
     "NotAuthorizedException", "PermissionDeniedException", "NotFoundException",
     "MethodNotAllowedException", "InternalServerException",
     "ServiceUnavailableException"}

\* The arguments of the constructor.  None is <<>>, a value v is <<v>>.
PositionalArgs == {<<>>, <<"first">>, <<"">>, <<"first", "second">>}
Details == {<<>>, <<"">>, <<"explicit detail">>}
StatusCodes == {<<>>, <<404>>, <<418>>, <<503>>}

\* HTTPStatus(code).phrase
Phrase(code) ==
    CASE code = 400 -> "Bad Request"
      [] code = 401 -> "Unauthorized"
      [] code = 403 -> "Forbidden"
      [] code = 404 -> "Not Found"
      [] code = 405 -> "Method Not Allowed"
      [] code = 418 -> "I'm a Teapot"
      [] code = 500 -> "Internal Server Error"
      [] code = 503 -> "Service Unavailable"

\* status_code or self.status_code
StatusCodeOrDefault(cls, status_code) ==
    IF Len(status_code) > 0 /\ status_code[1] # 0 THEN status_code[1]
    ELSE DefaultStatusCode(cls)

\* Takes the first positional argument before the detail keyword
HTTPExceptionInit_ArgsBeforeDetail(cls, args, detail, status_code) ==
    LET code == StatusCodeOrDefault(cls, status_code)
        text == IF Len(args) > 0 THEN args[1]
                ELSE IF Len(detail) > 0 /\ detail[1] # "" THEN detail[1]
                     ELSE Phrase(code)
    IN [cls |-> cls, status_code |-> code, detail |-> text,
        args |-> [head |-> [status_code |-> code, detail |-> text], rest |-> args]]

\* HTTPException.__init__(*args, detail=detail, status_code=status_code): the
\* attributes of the exception object.  args.head is the f-string
\* f"{self.status_code}: {self.detail}", kept as its two parts.
HTTPExceptionInit(cls, args, detail, status_code) ==
    LET code == StatusCodeOrDefault(cls, status_code)
        text == IF Len(detail) > 0 /\ detail[1] # "" THEN detail[1]
                ELSE IF Len(args) > 0 THEN args[1]
                     ELSE Phrase(code)
    IN [cls |-> cls, status_code |-> code, detail |-> text,
        args |-> [head |-> [status_code |-> code, detail |-> text], rest |-> args]]

\* ------------------------------------------------------------------ paths

P_ROOT == <<"/">>
P_ITEM_INT == <<"/", "items", "/", "{", "id:int", "}">>
P_ITEM_STR == <<"/", "items", "/", "{", "id:str", "}">>
P_SPECIAL == <<"/", "items", "/", "special">>
P_ITEM_TAG == <<"/", "items", "/", "{", "id:int", "}", "/", "{", "t:str", "}">>
P_SPECIAL_TAG == <<"/", "items", "/", "special", "/", "{", "t:str", "}">>
P_STATIC == <<"/", "static">>
P_STATIC_EXTRA == <<"/", "static", "/", "extra">>
P_STATIC_FILE == <<"/", "static", "/", "{", "f:str", "}">>

PARAM_ID_INT == [name |-> "id", type |-> "int", full |-> "id:int"]
PARAM_ID_STR == [name |-> "id", type |-> "str", full |-> "id:str"]
PARAM_T_STR == [name |-> "t", type |-> "str", full |-> "t:str"]
PARAM_F_STR == [name |-> "f", type |-> "str", full |-> "f:str"]

\* --------------------------------------------------------------- handlers

\* A route handler after resolve_middleware() and resolve_exception_handlers():
\* the resolved middleware list in declaration order and the resolved
\* exception-handler mapping.
Handlers ==
    [get_item |-> [middleware |-> <<"m1", "m2">>, exception_handlers |-> "eh_item"],
     get_item_str |-> [middleware |-> <<>>, exception_handlers |-> "eh_app"],
     get_special |-> [middleware |-> <<"m1">>, exception_handlers |-> "eh_app"],
     multi |-> [middleware |-> <<"m2", "m1", "m3">>, exception_handlers |-> "eh_multi"],
     get_extra |-> [middleware |-> <<>>, exception_handlers |-> "eh_app"],
     get_file |-> [middleware |-> <<"m3">>, exception_handlers |-> "eh_app"],
     ws_item |-> [middleware |-> <<"m2">>, exception_handlers |-> "eh_ws"],
     get_root |-> [middleware |-> <<>>, exception_handlers |-> "eh_app"],
     get_tag |-> [middleware |-> <<"m1">>, exception_handlers |-> "eh_item"],
     get_special_tag |-> [middleware |-> <<>>, exception_handlers |-> "eh_app"],
     static_files |-> [middleware |-> <<>>, exception_handlers |-> "eh_app"],
     asgi_app |-> [middleware |-> <<>>, exception_handlers |-> "eh_app"]]

\* ----------------------------------------------------------------- routes

\* The route objects a register call can create.  route_handler_map is the
\* HTTPRoute's method -> handler mapping in dict order; a WebSocketRoute or
\* ASGIRoute has the single route_handler.
RouteTable ==
    [item_int |-> [path |-> P_ITEM_INT, path_parameters |-> <<PARAM_ID_INT>>,
                   kind |-> "http", route_handler_map |-> <<<<"GET", "get_item">>>>,
                   route_handler |-> "get_item"],
     item_str |-> [path |-> P_ITEM_STR, path_parameters |-> <<PARAM_ID_STR>>,
                   kind |-> "http", route_handler_map |-> <<<<"GET", "get_item_str">>>>,
                   route_handler |-> "get_item_str"],
     special |-> [path |-> P_SPECIAL, path_parameters |-> <<>>,
                  kind |-> "http", route_handler_map |-> <<<<"GET", "get_special">>>>,
                  route_handler |-> "get_special"],
     special_multi |-> [path |-> P_SPECIAL, path_parameters |-> <<>>,
                        kind |-> "http",
                        route_handler_map |-> <<<<"GET", "multi">>, <<"POST", "multi">>>>,
                        route_handler |-> "multi"],
     static_extra |-> [path |-> P_STATIC_EXTRA, path_parameters |-> <<>>,
                       kind |-> "http", route_handler_map |-> <<<<"GET", "get_extra">>>>,
                       route_handler |-> "get_extra"],
     static_file |-> [path |-> P_STATIC_FILE, path_parameters |-> <<PARAM_F_STR>>,
                      kind |-> "http", route_handler_map |-> <<<<"GET", "get_file">>>>,
                      route_handler |-> "get_file"],
     ws_item |-> [path |-> P_ITEM_INT, path_parameters |-> <<PARAM_ID_INT>>,
                  kind |-> "websocket", route_handler_map |-> <<>>,
                  route_handler |-> "ws_item"],
     root |-> [path |-> P_ROOT, path_parameters |-> <<>>,
               kind |-> "http", route_handler_map |-> <<<<"GET", "get_root">>>>,
               route_handler |-> "get_root"],
     item_tag |-> [path |-> P_ITEM_TAG, path_parameters |-> <<PARAM_ID_INT, PARAM_T_STR>>,
                   kind |-> "http", route_handler_map |-> <<<<"GET", "get_tag">>>>,
                   route_handler |-> "get_tag"],
     special_tag |-> [path |-> P_SPECIAL_TAG, path_parameters |-> <<PARAM_T_STR>>,
                      kind |-> "http",
                      route_handler_map |-> <<<<"GET", "get_special_tag">>>>,
                      route_handler |-> "get_special_tag"],
     mount_static |-> [path |-> P_STATIC, path_parameters |-> <<>>,
                       kind |-> "asgi", route_handler_map |-> <<>>,
                       route_handler |-> "static_files"],
     mount_root |-> [path |-> P_ROOT, path_parameters |-> <<>>,
                     kind |-> "asgi", route_handler_map |-> <<>>,
                     route_handler |-> "static_files"],
     asgi_item |-> [path |-> P_ITEM_INT, path_parameters |-> <<PARAM_ID_INT>>,
                    kind |-> "asgi", route_handler_map |-> <<>>,
                    route_handler |-> "asgi_app"]]

\* The values the application's users pass to register: one route handler each.
UserValues ==
    {"item_int", "item_str", "special", "special_multi", "static_extra",
     "static_file", "ws_item", "root", "item_tag", "special_tag"}

\* A Router without route handlers: registering it creates no route.
EmptyValue == "empty_router"

\* static_files_config entries: the route created by asgi(path=config.path).
StaticMounts == {"mount_static", "mount_root"}

Route(i) == RouteTable[routes[i]]

\* ------------------------------------------------------- string operations

\* str.replace(old, "") with old a single token
RemoveToken(s, old) == SelectSeq(s, LAMBDA t : t # old)

\* Leaves the emptied placeholders as they are
ReplaceBraces_Unchanged(s) == s

RECURSIVE ReplaceBraces(_)
\* str.replace("{}", "*")
ReplaceBraces(s) ==
    IF Len(s) = 0 THEN <<>>
    ELSE IF Len(s) >= 2 /\ s[1] = "{" /\ s[2] = "}"
         THEN <<"*">> \o ReplaceBraces(SubSeq(s, 3, Len(s)))
         ELSE <<s[1]>> \o ReplaceBraces(Tail(s))

RECURSIVE SplitSlash(_, _)
\* str.split("/"): cur is the piece being read
SplitSlash(s, cur) ==
    IF Len(s) = 0 THEN <<cur>>
    ELSE IF s[1] = "/" THEN <<cur>> \o SplitSlash(Tail(s), <<>>)
         ELSE SplitSlash(Tail(s), cur \o <<s[1]>>)

\* Leaves the placeholders of the parameters in the path
StripParameters_Kept(path, params) == path

RECURSIVE StripParameters(_, _)
\* for param_definition in route.path_parameters: path = path.replace(full, "")
StripParameters(path, params) ==
    IF Len(params) = 0 THEN path
    ELSE StripParameters(RemoveToken(path, params[1].full), Tail(params))

\* components = ["/", *[component for component in path.split("/") if component]]
PathComponents(route) ==
    LET stripped == ReplaceBraces(StripParameters(route.path, route.path_parameters))
    IN <<P_ROOT>> \o SelectSeq(SplitSlash(stripped, <<>>), LAMBDA c : Len(c) > 0)

\* ------------------------------------------------------------------ nodes

\* {"_components": set()}
NewNode ==
    [components |-> {}, path_parameters |-> <<>>, asgi_handlers |-> <<>>,
     is_asgi |-> <<>>, static_path |-> <<>>]

NoHandlers == [k \in {} |-> <<>>]

Has(entry) == Len(entry) > 0

\* The application fields the registration code reads and writes, as one value.
AppState ==
    [routes |-> routes, registered |-> registered, static_paths |-> static_paths,
     plain_routes |-> plain_routes, route_map |-> route_map,
     build_log |-> build_log, node_of |-> node_of, raised |-> "none"]

\* ------------------------------------------------------ chain compilation

\* ExceptionHandlerMiddleware(app=app, exception_handlers=exception_handlers)
WrapInExceptionHandler(app, exception_handlers) ==
    <<[layer |-> "ExceptionHandlerMiddleware", arg |-> exception_handlers]>> \o app

RECURSIVE WrapMiddleware_FirstOutermost(_, _)
\* Wraps from the end of the list, so that the first-declared ends up outermost
WrapMiddleware_FirstOutermost(asgi_handler, middleware) ==
    IF Len(middleware) = 0 THEN asgi_handler
    ELSE WrapMiddleware_FirstOutermost(
             <<[layer |-> "middleware", arg |-> middleware[Len(middleware)]]>>
                 \o asgi_handler,
             SubSeq(middleware, 1, Len(middleware) - 1))

RECURSIVE WrapMiddleware(_, _)
\* for middleware in route_handler.resolve_middleware():
\*     asgi_handler = middleware(app=asgi_handler)
WrapMiddleware(asgi_handler, middleware) ==
    IF Len(middleware) = 0 THEN asgi_handler
    ELSE WrapMiddleware(<<[layer |-> "middleware", arg |-> middleware[1]]>> \o asgi_handler,
                        Tail(middleware))

\* Without the second exception layer around the middleware
BuildRouteMiddlewareStack_SingleWrap(route_handler) ==
    LET h == Handlers[route_handler]
        inner == WrapInExceptionHandler(<<[layer |-> "handle", arg |-> "route.handle"]>>,
                                        h.exception_handlers)
    IN WrapMiddleware(inner, h.middleware)

\* The layers of the compiled chain, outermost first; the innermost is route.handle.
BuildRouteMiddlewareStack(route_handler) ==
    LET h == Handlers[route_handler]
        inner == WrapInExceptionHandler(<<[layer |-> "handle", arg |-> "route.handle"]>>,
                                        h.exception_handlers)
        wrapped == WrapMiddleware(inner, h.middleware)
    IN WrapInExceptionHandler(wrapped, h.exception_handlers)

\* One call of _build_route_middleware_stack(route, route_handler): the new chain
\* object (serial tells two builds apart) and the log with the call recorded.
BuildChain(log, rid, route_handler) ==
    [chain |-> [route |-> rid, handler |-> route_handler, serial |-> Len(log) + 1,
                stack |-> BuildRouteMiddlewareStack(route_handler)],
     log |-> Append(log, <<rid, route_handler>>)]

RECURSIVE BuildHttpHandlers_FirstWins(_, _, _, _)
\* Keeps the chain a method already has on the node
BuildHttpHandlers_FirstWins(asgi_handlers, log, rid, handler_map) ==
    IF Len(handler_map) = 0 THEN [asgi_handlers |-> asgi_handlers, log |-> log]
    ELSE LET b == BuildChain(log, rid, handler_map[1][2])
         IN BuildHttpHandlers_FirstWins(asgi_handlers @@ (handler_map[1][1] :> b.chain),
                                        b.log, rid, Tail(handler_map))

RECURSIVE BuildHttpHandlers(_, _, _, _)
\* for method, handler_mapping in route.route_handler_map.items():
\*     asgi_handlers[method] = self._build_route_middleware_stack(route, handler)
BuildHttpHandlers(asgi_handlers, log, rid, handler_map) ==
    IF Len(handler_map) = 0 THEN [asgi_handlers |-> asgi_handlers, log |-> log]
    ELSE LET b == BuildChain(log, rid, handler_map[1][2])
         IN BuildHttpHandlers((handler_map[1][1] :> b.chain) @@ asgi_handlers, b.log,
                              rid, Tail(handler_map))

\* --------------------------------------------------- route-map construction

\* Sets node["_path_parameters"] whether or not the node has the key already
ConfigureRouteMapNode_ParametersOverwritten(m, rid, addr) ==
    LET route == RouteTable[m.routes[rid]]
        n0 == m.route_map[addr]
        n1 == [n0 EXCEPT
                 !.path_parameters = <<route.path_parameters>>,
                 !.asgi_handlers = IF Has(@) THEN @ ELSE <<NoHandlers>>,
                 !.is_asgi = IF Has(@) THEN @ ELSE <<FALSE>>]
        is_static == route.path \in m.static_paths
        n2 == IF is_static
              THEN [n1 EXCEPT !.static_path = <<route.path>>, !.is_asgi = <<TRUE>>]
              ELSE n1
        http == BuildHttpHandlers(n2.asgi_handlers[1], m.build_log, rid,
                                  route.route_handler_map)
        single == BuildChain(m.build_log, rid, route.route_handler)
        n3 == CASE route.kind = "http" ->
                     [n2 EXCEPT !.asgi_handlers = <<http.asgi_handlers>>]
                [] route.kind = "websocket" ->
                     [n2 EXCEPT !.asgi_handlers =
                                   <<("websocket" :> single.chain) @@ n2.asgi_handlers[1]>>]
                [] route.kind = "asgi" ->
                     [n2 EXCEPT !.asgi_handlers =
                                   <<("asgi" :> single.chain) @@ n2.asgi_handlers[1]>>,
                                !.is_asgi = <<TRUE>>]
        log3 == IF route.kind = "http" THEN http.log ELSE single.log
    IN IF is_static /\ n1.components # {}
       THEN [m EXCEPT !.route_map = [@ EXCEPT ![addr] = n1],
                      !.raised = ImproperlyConfiguredException]
       ELSE [m EXCEPT !.route_map = [@ EXCEPT ![addr] = n3], !.build_log = log3]

\* _configure_route_map_node(route, node), node being route_map[addr]
ConfigureRouteMapNode(m, rid, addr) ==
    LET route == RouteTable[m.routes[rid]]
        n0 == m.route_map[addr]
        n1 == [n0 EXCEPT
                 !.path_parameters = IF Has(@) THEN @ ELSE <<route.path_parameters>>,
                 !.asgi_handlers = IF Has(@) THEN @ ELSE <<NoHandlers>>,
                 !.is_asgi = IF Has(@) THEN @ ELSE <<FALSE>>]
        is_static == route.path \in m.static_paths
        n2 == IF is_static
              THEN [n1 EXCEPT !.static_path = <<route.path>>, !.is_asgi = <<TRUE>>]
              ELSE n1
        http == BuildHttpHandlers(n2.asgi_handlers[1], m.build_log, rid,
                                  route.route_handler_map)
        single == BuildChain(m.build_log, rid, route.route_handler)
        n3 == CASE route.kind = "http" ->
                     [n2 EXCEPT !.asgi_handlers = <<http.asgi_handlers>>]
                [] route.kind = "websocket" ->
                     [n2 EXCEPT !.asgi_handlers =
                                   <<("websocket" :> single.chain) @@ n2.asgi_handlers[1]>>]
                [] route.kind = "asgi" ->
                     [n2 EXCEPT !.asgi_handlers =
                                   <<("asgi" :> single.chain) @@ n2.asgi_handlers[1]>>,
                                !.is_asgi = <<TRUE>>]
        log3 == IF route.kind = "http" THEN http.log ELSE single.log
    IN IF is_static /\ n1.components # {}
       THEN [m EXCEPT !.route_map = [@ EXCEPT ![addr] = n1],
                      !.raised = ImproperlyConfiguredException]
       ELSE [m EXCEPT !.route_map = [@ EXCEPT ![addr] = n3], !.build_log = log3]

RECURSIVE WalkComponents_Unlisted(_, _, _)
\* Creates the child nodes without adding the components to the parents' sets
WalkComponents_Unlisted(m, cur, components) ==
    IF Len(components) = 0 THEN [m |-> m, node |-> cur]
    ELSE LET child == Append(cur, components[1])
             rm2 == IF child \in DOMAIN m.route_map THEN m.route_map
                    ELSE (child :> NewNode) @@ m.route_map
             m2 == [m EXCEPT !.route_map = rm2]
         IN IF Has(rm2[child].static_path)
            THEN [m |-> [m2 EXCEPT !.raised = ImproperlyConfiguredException],
                  node |-> child]
            ELSE WalkComponents_Unlisted(m2, child, Tail(components))

RECURSIVE WalkComponents(_, _, _)
\* The loop over components in _add_node_to_route_map; cur is the address of
\* current_node.  The result carries the address of the node reached.
WalkComponents(m, cur, components) ==
    IF Len(components) = 0 THEN [m |-> m, node |-> cur]
    ELSE LET component == components[1]
             child == Append(cur, component)
             rm1 == [m.route_map EXCEPT ![cur].components = @ \cup {component}]
             rm2 == IF child \in DOMAIN rm1 THEN rm1 ELSE (child :> NewNode) @@ rm1
             m2 == [m EXCEPT !.route_map = rm2]
         IN IF Has(rm2[child].static_path)
            THEN [m |-> [m2 EXCEPT !.raised = ImproperlyConfiguredException],
                  node |-> child]
            ELSE WalkComponents(m2, child, Tail(components))

\* Leaves the path of a parameter-free route out of self.plain_routes
AddNodeToRouteMap_NoPlainIndex(m, rid) ==
    LET route == RouteTable[m.routes[rid]]
        path == route.path
    IN IF Len(route.path_parameters) > 0 \/ path \in m.static_paths
       THEN LET w == WalkComponents(m, <<>>, PathComponents(route))
            IN IF w.m.raised # "none" THEN w
               ELSE [m |-> ConfigureRouteMapNode(w.m, rid, w.node), node |-> w.node]
       ELSE LET rm1 == IF <<path>> \in DOMAIN m.route_map THEN m.route_map
                       ELSE (<<path>> :> NewNode) @@ m.route_map
                m1 == [m EXCEPT !.route_map = rm1]
            IN [m |-> ConfigureRouteMapNode(m1, rid, <<path>>), node |-> <<path>>]

\* _add_node_to_route_map(route): the application afterwards and the node returned
AddNodeToRouteMap(m, rid) ==
    LET route == RouteTable[m.routes[rid]]
        path == route.path
    IN IF Len(route.path_parameters) > 0 \/ path \in m.static_paths
       THEN LET w == WalkComponents(m, <<>>, PathComponents(route))
            IN IF w.m.raised # "none" THEN w
               ELSE [m |-> ConfigureRouteMapNode(w.m, rid, w.node), node |-> w.node]
       ELSE LET rm1 == IF <<path>> \in DOMAIN m.route_map THEN m.route_map
                       ELSE (<<path>> :> NewNode) @@ m.route_map
                m1 == [m EXCEPT !.route_map = rm1,
                                !.plain_routes = @ \cup {path}]
            IN [m |-> ConfigureRouteMapNode(m1, rid, <<path>>), node |-> <<path>>]

\* Every route of self.routes, registered or not
NewRoutes_All(m) ==
    LET RECURSIVE Pick(_)
        Pick(i) == IF i > Len(m.routes) THEN <<>> ELSE <<i>> \o Pick(i + 1)
    IN Pick(1)

\* new_routes = [route for route in self.routes if route not in self._registered_routes]
NewRoutes(m) ==
    LET RECURSIVE Pick(_)
        Pick(i) == IF i > Len(m.routes) THEN <<>>
                   ELSE IF i \in m.registered THEN Pick(i + 1)
                        ELSE <<i>> \o Pick(i + 1)
    IN Pick(1)

\* Compares the parameter names alone
ParametersConflict_NamesOnly(node_parameters, route_parameters) ==
    [k \in DOMAIN node_parameters |-> node_parameters[k].name]
        # [k \in DOMAIN route_parameters |-> route_parameters[k].name]

\* node["_path_parameters"] != route.path_parameters
ParametersConflict(node_parameters, route_parameters) ==
    node_parameters # route_parameters

RECURSIVE InsertRoutes_SkipFailed(_, _)
\* Goes on with the next route after one that raised
InsertRoutes_SkipFailed(m, new_routes) ==
    IF Len(new_routes) = 0 THEN m
    ELSE LET rid == new_routes[1]
             a == AddNodeToRouteMap([m EXCEPT !.raised = "none"], rid)
             failed == \/ a.m.raised # "none"
                       \/ ParametersConflict(a.m.route_map[a.node].path_parameters[1],
                                             RouteTable[m.routes[rid]].path_parameters)
             rest == InsertRoutes_SkipFailed(
                         IF failed THEN [a.m EXCEPT !.raised = "none"]
                         ELSE [a.m EXCEPT !.registered = @ \cup {rid},
                                          !.node_of = (rid :> a.node) @@ @],
                         Tail(new_routes))
         IN IF failed THEN [rest EXCEPT !.raised = ImproperlyConfiguredException]
            ELSE rest

RECURSIVE InsertRoutes(_, _)
\* for route in new_routes: ... (the loop of _construct_route_map)
InsertRoutes(m, new_routes) ==
    IF Len(new_routes) = 0 THEN m
    ELSE LET rid == new_routes[1]
             a == AddNodeToRouteMap(m, rid)
         IN IF a.m.raised # "none" THEN a.m
            ELSE IF ParametersConflict(a.m.route_map[a.node].path_parameters[1],
                                       RouteTable[m.routes[rid]].path_parameters)
                 THEN [a.m EXCEPT !.raised = ImproperlyConfiguredException]
                 ELSE InsertRoutes([a.m EXCEPT !.registered = @ \cup {rid},
                                                !.node_of = (rid :> a.node) @@ @],
                                   Tail(new_routes))

\* _construct_route_map()
ConstructRouteMap(m) ==
    LET m1 == IF <<>> \in DOMAIN m.route_map THEN m
              ELSE [m EXCEPT !.route_map = (<<>> :> NewNode) @@ @]
    IN InsertRoutes(m1, NewRoutes(m1))

\* Router.register(value): the routes created for value are appended to self.routes
RouterRegister(m, value) ==
    IF value = EmptyValue THEN m ELSE [m EXCEPT !.routes = Append(@, value)]

\* Starlite.register(value)
StarliteRegister(m, value) == ConstructRouteMap(RouterRegister(m, value))

\* --------------------------------------------------------------- dispatch

R_ITEM_42 == <<"/", "items", "/", "42">>
R_ITEMS == <<"/", "items">>
R_SPECIAL_TAG == <<"/", "items", "/", "special", "/", "red">>
R_ITEM_TAG == <<"/", "items", "/", "42", "/", "red">>

RequestPaths ==
    {P_ROOT, P_SPECIAL, R_ITEM_42, R_ITEMS, R_SPECIAL_TAG, R_ITEM_TAG, P_STATIC_EXTRA}

\* The dispatch key of a request: its HTTP method, or the fixed keys
DispatchKeys == {"GET", "POST", "websocket", "asgi"}

\* The components of a request path: the root segment, then each non-empty segment
RequestComponents(path) ==
    <<P_ROOT>> \o SelectSeq(SplitSlash(path, <<>>), LAMBDA c : Len(c) > 0)

RECURSIVE TraverseRouteMap(_, _, _)
\* The trie walk from the node at cur: the literal child is preferred, the
\* wildcard child is the fallback, and the walk ends at a static mount, which
\* serves every path below it.  <<addr>> when a node is reached, <<>> otherwise.
TraverseRouteMap(rm, cur, components) ==
    IF cur \notin DOMAIN rm THEN <<>>
    ELSE IF Len(components) = 0 \/ Has(rm[cur].static_path) THEN <<cur>>
    ELSE IF Append(cur, components[1]) \in DOMAIN rm
         THEN TraverseRouteMap(rm, Append(cur, components[1]), Tail(components))
    ELSE IF Append(cur, <<"*">>) \in DOMAIN rm
         THEN TraverseRouteMap(rm, Append(cur, <<"*">>), Tail(components))
    ELSE <<>>

\* Steps 1 and 2 of the dispatcher: the plain-route index first, the trie otherwise
ResolveNode(rm, plain, path) ==
    IF path \in plain
    THEN [via |-> "plain", node |-> <<<<path>>>>]
    ELSE [via |-> "trie", node |-> TraverseRouteMap(rm, <<>>, RequestComponents(path))]

\* The layer that translates an exception raised in layer raise_at of a chain:
\* the nearest enclosing exception-translation layer of the chain, and the
\* application-level layer when the chain has none around raise_at.
RECURSIVE TranslatedBy(_, _)
TranslatedBy(stack, raise_at) ==
    IF raise_at <= 1
    THEN [scope |-> "application", layer |-> 0, exception_handlers |-> "eh_app"]
    ELSE IF stack[raise_at - 1].layer = "ExceptionHandlerMiddleware"
         THEN [scope |-> "route", layer |-> raise_at - 1,
               exception_handlers |-> stack[raise_at - 1].arg]
         ELSE TranslatedBy(stack, raise_at - 1)

NoChain ==
    [route |-> 0, handler |-> "none", serial |-> 0, stack |-> <<>>]

NoTranslation == [scope |-> "none", layer |-> 0, exception_handlers |-> "none"]

\* The layers of a chain in which a request can raise: the middleware and route.handle
RaisingLayers(stack) ==
    {k \in 1..Len(stack) : stack[k].layer # "ExceptionHandlerMiddleware"}

\* Steps 4 and 5 of the dispatcher.  raise_at = 0: nothing raises; otherwise the
\* layer of the selected chain that raises.
DispatchRequest(rm, plain, path, key, raise_at) ==
    LET r == ResolveNode(rm, plain, path)
        known == Has(r.node) /\ Has(rm[r.node[1]].asgi_handlers)
        handlers == rm[r.node[1]].asgi_handlers[1]
        base == [path |-> path, key |-> key, via |-> r.via, node |-> r.node,
                 status |-> 200, chain |-> NoChain, raise_at |-> 0,
                 translated_by |-> NoTranslation]
    IN IF ~known
       THEN [base EXCEPT !.status = DefaultStatusCode("NotFoundException")]
       ELSE IF key \notin DOMAIN handlers
       THEN [base EXCEPT !.status = DefaultStatusCode("MethodNotAllowedException")]
       ELSE LET chain == handlers[key]
            IN IF raise_at \in RaisingLayers(chain.stack)
               THEN [base EXCEPT !.chain = chain, !.raise_at = raise_at,
                                 !.translated_by = TranslatedBy(chain.stack, raise_at)]
               ELSE [base EXCEPT !.chain = chain]

\* ----------------------------------------------------- application shell

\* Values the constructor arguments take.  "None", "[]" and "{}" are the
\* values Python's truth test rejects.
CompressionConfigs == {"None", "CompressionConfig"}
AllowedHosts == {"None", "[]", "['example.com']"}
CORSConfigs == {"None", "CORSConfig"}
CSRFConfigs == {"None", "CSRFConfig"}
ExceptionHandlers == {"None", "{}", "eh_app"}

\* if value is not None:
Truthy_NotNone(value) == value # "None"

\* if value:
Truthy(value) == value \notin {"None", "[]", "{}"}

\* value or {}
OrEmptyDict(value) == IF Truthy(value) THEN value ELSE "{}"

\* cls(app=app, ...) when the configuration is set, app itself otherwise
WrapIf(config, cls, app) ==
    IF Truthy(config) THEN <<[layer |-> cls, arg |-> config]>> \o app ELSE app

\* self.asgi_router
AsgiRouter == <<[layer |-> "asgi_router", arg |-> "StarliteASGIRouter"]>>

\* With the CSRF layer wrapped before the CORS layer
CreateAsgiHandler_CsrfInsideCors(compression, hosts, cors, csrf, handlers) ==
    LET a1 == WrapIf(compression, "CompressionMiddleware", AsgiRouter)
        a2 == WrapIf(hosts, "TrustedHostMiddleware", a1)
        a3 == WrapIf(csrf, "CSRFMiddleware", a2)
        a4 == WrapIf(cors, "CORSMiddleware", a3)
    IN WrapInExceptionHandler(a4, OrEmptyDict(handlers))

\* The layers of self.asgi_handler, outermost first; the innermost is the router.
CreateAsgiHandler(compression, hosts, cors, csrf, handlers) ==
    LET a1 == WrapIf(compression, "CompressionMiddleware", AsgiRouter)
        a2 == WrapIf(hosts, "TrustedHostMiddleware", a1)
        a3 == WrapIf(cors, "CORSMiddleware", a2)
        a4 == WrapIf(csrf, "CSRFMiddleware", a3)
    IN WrapInExceptionHandler(a4, OrEmptyDict(handlers))

\* The scopes the server hands to the application: the connection type, the
\* request line, and what the "app" and "state" keys held before the call.
ScopeTypes == {"lifespan", "http", "websocket"}
ScopePaths == {P_SPECIAL, R_ITEM_42, R_ITEMS}
ScopeKeys(type) ==
    CASE type = "http" -> {"GET", "POST"}
      [] type = "websocket" -> {"websocket"}
      [] OTHER -> {"lifespan"}
Scopes ==
    {[type |-> t, path |-> p, key |-> k, app |-> a, state |-> st] :
        t \in ScopeTypes, p \in ScopePaths, k \in DispatchKeys \cup {"lifespan"},
        a \in {"absent", "other"}, st \in {"absent", "stale"}}

\* The names of the layers a request crosses on its way through handler, in order
LayersCrossed(handler) == [i \in 1..Len(handler) |-> handler[i].layer]

\* Every scope, lifespan events too, is sent through self.asgi_handler
StarliteCall_LifespanThroughHandler(scope, handler, rm, plain) ==
    [given |-> scope, scope |-> [scope EXCEPT !.app = "self", !.state = "{}"],
     sent_to |-> "asgi_handler", crossed |-> LayersCrossed(handler),
     routed |-> <<DispatchRequest(rm, plain, scope.path, scope.key, 0)>>]

\* __call__(scope, receive, send): the scope as it was given and as the callee
\* receives it, the callable it was sent to, the layers crossed and the
\* dispatcher's resolution.
StarliteCall(scope, handler, rm, plain) ==
    LET with_app == [scope EXCEPT !.app = "self"]
    IN IF scope.type = "lifespan"
       THEN [given |-> scope, scope |-> with_app, sent_to |-> "asgi_router.lifespan",
             crossed |-> <<>>, routed |-> <<>>]
       ELSE [given |-> scope, scope |-> [with_app EXCEPT !.state = "{}"],
             sent_to |-> "asgi_handler", crossed |-> LayersCrossed(handler),
             routed |-> <<DispatchRequest(rm, plain, scope.path, scope.key, 0)>>]

\* ------------------------------------------------------------ readers

\* A register call that runs while requests are served is a sequence of steps,
\* one per mutation of the route map, and a reader may run between any two.
\* writer holds the position of the call: pending is what is left of new_routes,
\* cur the address of current_node, todo what is left of components, handlers
\* the dispatch keys of the route that are not assigned yet.

\* No register call is in progress
Idle == [pc |-> "idle", pending |-> <<>>, cur |-> <<>>, todo |-> <<>>, handlers |-> <<>>]

\* The dispatch keys a route is configured under, each with its route handler
HandlerEntries(route) ==
    CASE route.kind = "http" -> route.route_handler_map
      [] route.kind = "websocket" -> <<<<"websocket", route.route_handler>>>>
      [] route.kind = "asgi" -> <<<<"asgi", route.route_handler>>>>

\* A configured node whose fields do not belong to one configuration
Torn(node) ==
    \/ ~(Has(node.path_parameters) /\ Has(node.asgi_handlers) /\ Has(node.is_asgi))
    \/ Has(node.static_path) /\ ~node.is_asgi[1]
    \/ "asgi" \in DOMAIN node.asgi_handlers[1] /\ ~node.is_asgi[1]

\* What a reader makes of the node it resolved
NodeView(node) ==
    IF ~Has(node.path_parameters) /\ ~Has(node.asgi_handlers) /\ ~Has(node.is_asgi)
         /\ ~Has(node.static_path)
    THEN "not_yet_present"
    ELSE IF Torn(node) THEN "torn" ELSE "consistent"

RECURSIVE WalkView(_, _, _)
\* The reader's trie walk from the node at cur, led by the components sets
WalkView(rm, cur, components) ==
    IF cur \notin DOMAIN rm THEN "not_yet_present"
    ELSE IF Len(components) = 0 \/ Has(rm[cur].static_path) THEN NodeView(rm[cur])
    ELSE IF components[1] \in rm[cur].components
         THEN IF Append(cur, components[1]) \in DOMAIN rm
              THEN WalkView(rm, Append(cur, components[1]), Tail(components))
              ELSE "component_without_child"
    ELSE IF <<"*">> \in rm[cur].components
         THEN IF Append(cur, <<"*">>) \in DOMAIN rm
              THEN WalkView(rm, Append(cur, <<"*">>), Tail(components))
              ELSE "component_without_child"
    ELSE "not_yet_present"

\* What a reader that takes no lock finds when it resolves path
ReaderView(rm, plain, path) ==
    IF path \in plain
    THEN IF <<path>> \notin DOMAIN rm THEN "plain_route_without_node"
         ELSE IF ~Has(rm[<<path>>].asgi_handlers) THEN "plain_route_without_handlers"
         ELSE NodeView(rm[<<path>>])
    ELSE WalkView(rm, <<>>, RequestComponents(path))

\* ----------------------------------------------------------------- actions

\* The routing fields as __init__ sets them before the first register call
InitRouting ==
    /\ phase = "init_handlers"
    /\ routes = <<>>
    /\ registered = {}
    /\ static_paths = {}
    /\ plain_routes = {}
    /\ route_map = [a \in {} |-> NewNode]
    /\ build_log = <<>>
    /\ ncalls = 0
    /\ raised = "none"
    /\ called = "none"
    /\ node_of = [i \in {} |-> <<>>]
    /\ response = <<>>
    /\ last_call = <<>>
    /\ writer = Idle
    /\ observed = <<>>
    /\ http_exception = <<>>

\* self.asgi_handler = self._create_asgi_handler()
InitShell(compression, hosts, cors, csrf, handlers) ==
    /\ compression_config = compression
    /\ allowed_hosts = hosts
    /\ cors_config = cors
    /\ csrf_config = csrf
    /\ app_exception_handlers = handlers
    /\ app_asgi_handler = CreateAsgiHandler(compression, hosts, cors, csrf, handlers)

\* An application constructed without any application-level configuration
Init == InitRouting /\ InitShell("None", "None", "None", "None", "None")

\* An application constructed with any combination of the configurations
InitConfigured ==
    /\ InitRouting
    /\ \E compression \in CompressionConfigs, hosts \in AllowedHosts,
          cors \in CORSConfigs, csrf \in CSRFConfigs, handlers \in ExceptionHandlers :
            InitShell(compression, hosts, cors, csrf, handlers)

Commit(m) ==
    /\ routes' = m.routes
    /\ registered' = m.registered
    /\ static_paths' = m.static_paths
    /\ plain_routes' = m.plain_routes
    /\ route_map' = m.route_map
    /\ build_log' = m.build_log
    /\ raised' = m.raised
    /\ node_of' = m.node_of

\* register(value), called for each element of route_handlers while the
\* application is constructed and by the application's users afterwards.  An
\* exception raised during construction leaves no application object.
Register(value) ==
    /\ phase \in {"init_handlers", "serving"}
    /\ response = <<>>
    /\ ncalls < MaxCalls
    /\ LET m == StarliteRegister(AppState, value)
       IN /\ Commit(m)
          /\ phase' = IF phase = "init_handlers" /\ m.raised # "none"
                      THEN "aborted" ELSE phase
    /\ ncalls' = ncalls + 1
    /\ called' = value
    /\ UNCHANGED <<response, shell_vars, reader_vars, http_exception>>

\* for config in static_files_config:
\*     self._static_paths.add(config.path)
\*     self.register(asgi(path=config.path)(config.to_static_files_app()))
StaticMount(value) ==
    /\ phase \in {"init_handlers", "init_static"}
    /\ ncalls < MaxCalls
    /\ LET m0 == [AppState EXCEPT !.static_paths = @ \cup {RouteTable[value].path}]
           m == StarliteRegister(m0, value)
       IN /\ Commit(m)
          /\ phase' = IF m.raised # "none" THEN "aborted" ELSE "init_static"
    /\ ncalls' = ncalls + 1
    /\ called' = value
    /\ UNCHANGED <<response, shell_vars, reader_vars, http_exception>>

\* __init__ returns: the application is constructed
Constructed ==
    /\ phase \in {"init_handlers", "init_static"}
    /\ phase' = "serving"
    /\ UNCHANGED <<routes, registered, static_paths, plain_routes, route_map,
                   build_log, ncalls, raised, called, node_of, response>>
    /\ UNCHANGED <<shell_vars, reader_vars, http_exception>>

\* One request handled by the dispatcher; it reads the route map and changes nothing.
Dispatch(path, key) ==
    /\ phase = "serving"
    /\ response = <<>>
    /\ LET quiet == DispatchRequest(route_map, plain_routes, path, key, 0)
       IN \E raise_at \in {0} \cup RaisingLayers(quiet.chain.stack) :
             response' = <<DispatchRequest(route_map, plain_routes, path, key, raise_at)>>
    /\ UNCHANGED <<phase, routes, registered, static_paths, plain_routes, route_map,
                   build_log, ncalls, raised, called, node_of>>
    /\ UNCHANGED <<shell_vars, reader_vars, http_exception>>

\* The response has been sent: the request is over.
Completed ==
    /\ response # <<>>
    /\ response' = <<>>
    /\ UNCHANGED <<phase, routes, registered, static_paths, plain_routes, route_map,
                   build_log, ncalls, raised, called, node_of>>
    /\ UNCHANGED <<shell_vars, reader_vars, http_exception>>

Next ==
    \/ \E value \in UserValues \cup {EmptyValue} : Register(value)
    \/ \E value \in StaticMounts : StaticMount(value)
    \/ Constructed

Spec == Init /\ [][Next]_vars

\* Registration together with request dispatch
NextDispatch ==
    \/ \E value \in UserValues \cup {EmptyValue} : Register(value)
    \/ \E value \in StaticMounts : StaticMount(value)
    \/ Constructed
    \/ \E path \in RequestPaths, key \in DispatchKeys : Dispatch(path, key)
    \/ Completed

SpecDispatch == Init /\ [][NextDispatch]_vars

\* The application entry point is called with a scope
Call(scope) ==
    /\ phase = "serving"
    /\ last_call = <<>>
    /\ last_call' = <<StarliteCall(scope, app_asgi_handler, route_map, plain_routes)>>
    /\ UNCHANGED <<routing_vars, compression_config, allowed_hosts, cors_config,
                   csrf_config, app_exception_handlers, app_asgi_handler, reader_vars,
                   http_exception>>

\* The call of the application has returned
Returned ==
    /\ last_call # <<>>
    /\ last_call' = <<>>
    /\ UNCHANGED <<routing_vars, compression_config, allowed_hosts, cors_config,
                   csrf_config, app_exception_handlers, app_asgi_handler, reader_vars,
                   http_exception>>

\* The routes registered on the configured application
ShellValues == {"item_int", "special"}

\* The configured application: registration and calls of the entry point
NextShell ==
    \/ \E value \in ShellValues : Register(value)
    \/ Constructed
    \/ \E scope \in Scopes : scope.key \in ScopeKeys(scope.type) /\ Call(scope)
    \/ Returned

SpecShell == InitConfigured /\ [][NextShell]_vars

\* What one step of a register call writes; the rest of the application is
\* left alone.
WriterStep(rm, plain, log, reg, nodes, exc, w) ==
    /\ route_map' = rm
    /\ plain_routes' = plain
    /\ build_log' = log
    /\ registered' = reg
    /\ node_of' = nodes
    /\ raised' = exc
    /\ writer' = w
    /\ UNCHANGED <<phase, routes, static_paths, ncalls, called, response,
                   shell_vars, observed, http_exception>>

\* A step that changes the position of the call and nothing else
Goto(w) ==
    WriterStep(route_map, plain_routes, build_log, registered, node_of, raised, w)

\* A step that raises: the exception leaves register
Raise ==
    WriterStep(route_map, plain_routes, build_log, registered, node_of,
               ImproperlyConfiguredException, Idle)

\* register(value) is called while requests are served: the route is appended
\* and _construct_route_map computes new_routes.
BeginRegister(value) ==
    /\ phase = "serving"
    /\ writer.pc = "idle"
    /\ ncalls < MaxCalls
    /\ LET m1 == RouterRegister(AppState, value)
           m2 == IF <<>> \in DOMAIN m1.route_map THEN m1
                 ELSE [m1 EXCEPT !.route_map = (<<>> :> NewNode) @@ @]
       IN /\ routes' = m2.routes
          /\ route_map' = m2.route_map
          /\ writer' = [Idle EXCEPT !.pc = "next_route", !.pending = NewRoutes(m2)]
    /\ raised' = "none"
    /\ ncalls' = ncalls + 1
    /\ called' = value
    /\ UNCHANGED <<phase, registered, static_paths, plain_routes, build_log, node_of,
                   response, shell_vars, observed, http_exception>>

\* for route in new_routes: the branch at the head of _add_node_to_route_map,
\* or the return of register when no route is left
NextRoute ==
    /\ writer.pc = "next_route"
    /\ IF Len(writer.pending) = 0 THEN Goto(Idle)
       ELSE LET route == Route(writer.pending[1])
            IN IF Len(route.path_parameters) > 0 \/ route.path \in static_paths
               THEN Goto([writer EXCEPT !.pc = "add_component", !.cur = <<>>,
                                         !.todo = PathComponents(route)])
               ELSE Goto([writer EXCEPT !.pc = "plain_create"])

\* components_set.add(component)
AddComponent ==
    /\ writer.pc = "add_component"
    /\ WriterStep([route_map EXCEPT ![writer.cur].components = @ \cup {writer.todo[1]}],
                  plain_routes, build_log, registered, node_of, raised,
                  [writer EXCEPT !.pc = "create_child"])

\* if component not in current_node: current_node[component] = {...}
\* current_node = current_node[component], and the check for a static path
CreateChild ==
    /\ writer.pc = "create_child"
    /\ LET child == Append(writer.cur, writer.todo[1])
           rm2 == IF child \in DOMAIN route_map THEN route_map
                  ELSE (child :> NewNode) @@ route_map
           rest == Tail(writer.todo)
       IN IF Has(rm2[child].static_path)
          THEN WriterStep(rm2, plain_routes, build_log, registered, node_of,
                          ImproperlyConfiguredException, Idle)
          ELSE WriterStep(rm2, plain_routes, build_log, registered, node_of, raised,
                          [writer EXCEPT !.cur = child, !.todo = rest,
                               !.pc = IF Len(rest) = 0 THEN "path_parameters"
                                      ELSE "add_component"])

\* if path not in self.route_map: self.route_map[path] = {"_components": set()}
PlainCreate ==
    /\ writer.pc = "plain_create"
    /\ LET path == Route(writer.pending[1]).path
       IN WriterStep(IF <<path>> \in DOMAIN route_map THEN route_map
                     ELSE (<<path>> :> NewNode) @@ route_map,
                     plain_routes, build_log, registered, node_of, raised,
                     [writer EXCEPT !.pc = "plain_index"])

\* self.plain_routes.add(path); current_node = self.route_map[path]
PlainIndex ==
    /\ writer.pc = "plain_index"
    /\ LET path == Route(writer.pending[1]).path
       IN WriterStep(route_map, plain_routes \cup {path}, build_log, registered,
                     node_of, raised,
                     [writer EXCEPT !.pc = "path_parameters", !.cur = <<path>>])

\* One assignment of _configure_route_map_node before the handlers: the three
\* "if ... not in node" defaults, then the fields of a static path
ConfigureField ==
    /\ writer.pc \in {"path_parameters", "asgi_handlers", "is_asgi",
                      "static_path", "static_is_asgi"}
    /\ LET route == Route(writer.pending[1])
           node == route_map[writer.cur]
           Store(n, pc) ==
               WriterStep([route_map EXCEPT ![writer.cur] = n], plain_routes, build_log,
                          registered, node_of, raised, [writer EXCEPT !.pc = pc])
       IN CASE writer.pc = "path_parameters" ->
                 Store([node EXCEPT !.path_parameters =
                                       IF Has(@) THEN @ ELSE <<route.path_parameters>>],
                       "asgi_handlers")
            [] writer.pc = "asgi_handlers" ->
                 Store([node EXCEPT !.asgi_handlers = IF Has(@) THEN @ ELSE <<NoHandlers>>],
                       "is_asgi")
            [] writer.pc = "is_asgi" ->
                 LET n == [node EXCEPT !.is_asgi = IF Has(@) THEN @ ELSE <<FALSE>>]
                 IN IF route.path \notin static_paths
                    THEN WriterStep([route_map EXCEPT ![writer.cur] = n], plain_routes,
                                    build_log, registered, node_of, raised,
                                    [writer EXCEPT !.pc = "assign",
                                                   !.handlers = HandlerEntries(route)])
                    ELSE IF n.components # {}
                    THEN WriterStep([route_map EXCEPT ![writer.cur] = n], plain_routes,
                                    build_log, registered, node_of,
                                    ImproperlyConfiguredException, Idle)
                    ELSE Store(n, "static_path")
            [] writer.pc = "static_path" ->
                 Store([node EXCEPT !.static_path = <<route.path>>], "static_is_asgi")
            [] writer.pc = "static_is_asgi" ->
                 WriterStep([route_map EXCEPT ![writer.cur].is_asgi = <<TRUE>>],
                            plain_routes, build_log, registered, node_of, raised,
                            [writer EXCEPT !.pc = "assign",
                                           !.handlers = HandlerEntries(route)])

\* asgi_handlers[key] = self._build_route_middleware_stack(route, handler) for
\* the next dispatch key of the route; after the last one, node["_is_asgi"] = True
\* for a raw-ASGI route, and _add_node_to_route_map returns.
AssignHandler ==
    /\ writer.pc = "assign"
    /\ LET rid == writer.pending[1]
           node == route_map[writer.cur]
       IN IF Len(writer.handlers) = 0
          THEN WriterStep(IF Route(rid).kind = "asgi"
                          THEN [route_map EXCEPT ![writer.cur].is_asgi = <<TRUE>>]
                          ELSE route_map,
                          plain_routes, build_log, registered, node_of, raised,
                          [writer EXCEPT !.pc = "check"])
          ELSE LET b == BuildChain(build_log, rid, writer.handlers[1][2])
               IN WriterStep([route_map EXCEPT ![writer.cur].asgi_handlers =
                                 <<(writer.handlers[1][1] :> b.chain) @@ node.asgi_handlers[1]>>],
                             plain_routes, b.log, registered, node_of, raised,
                             [writer EXCEPT !.handlers = Tail(@)])

\* if node["_path_parameters"] != route.path_parameters: raise ...
\* self._registered_routes.add(route)
CheckParameters ==
    /\ writer.pc = "check"
    /\ LET rid == writer.pending[1]
       IN IF ParametersConflict(route_map[writer.cur].path_parameters[1],
                                Route(rid).path_parameters)
          THEN Raise
          ELSE WriterStep(route_map, plain_routes, build_log, registered \cup {rid},
                          (rid :> writer.cur) @@ node_of, raised,
                          [Idle EXCEPT !.pc = "next_route",
                                       !.pending = Tail(writer.pending)])

\* A request is resolved against the route map as it is at this moment
Read(path) ==
    /\ phase = "serving"
    /\ observed = <<>>
    /\ observed' = <<[path |-> path,
                      finding |-> ReaderView(route_map, plain_routes, path),
                      writer_at |-> writer.pc]>>
    /\ UNCHANGED <<routing_vars, shell_vars, writer, http_exception>>

\* The reader is done
ReadDone ==
    /\ observed # <<>>
    /\ observed' = <<>>
    /\ UNCHANGED <<routing_vars, shell_vars, writer, http_exception>>

\* The routes registered while requests are served
ReaderValues == {"item_int", "item_str", "special", "special_multi"}
ReaderPaths == {P_SPECIAL, R_ITEM_42, R_ITEMS}

\* Registration beside readers that take no lock
NextReaders ==
    \/ \E value \in StaticMounts : StaticMount(value)
    \/ Constructed
    \/ \E value \in ReaderValues : BeginRegister(value)
    \/ NextRoute
    \/ AddComponent
    \/ CreateChild
    \/ PlainCreate
    \/ PlainIndex
    \/ ConfigureField
    \/ AssignHandler
    \/ CheckParameters
    \/ \E path \in ReaderPaths : Read(path)
    \/ ReadDone

SpecReaders == Init /\ [][NextReaders]_vars

\* The routes registered on an application that serves a raw ASGI app
RawValues == {"asgi_item", "item_tag", "item_int"}

\* Registration of raw ASGI routes and the routes around them
NextRaw ==
    \/ \E value \in RawValues \cup {EmptyValue} : Register(value)
    \/ \E value \in StaticMounts : StaticMount(value)
    \/ Constructed

SpecRaw == Init /\ [][NextRaw]_vars

\* An HTTP exception is constructed and raised
RaiseHTTPException(cls, args, detail, status_code) ==
    /\ http_exception = <<>>
    /\ http_exception' =
          <<[given |-> [cls |-> cls, args |-> args, detail |-> detail,
                        status_code |-> status_code],
             raised |-> HTTPExceptionInit(cls, args, detail, status_code)]>>
    /\ UNCHANGED <<routing_vars, shell_vars, reader_vars>>

\* The exception has been handled
Handled ==
    /\ http_exception # <<>>
    /\ http_exception' = <<>>
    /\ UNCHANGED <<routing_vars, shell_vars, reader_vars>>

\* Construction of HTTP exceptions
NextExceptions ==
    \/ \E cls \in HTTPExceptionClasses, args \in PositionalArgs, detail \in Details,
          status_code \in StatusCodes :
            RaiseHTTPException(cls, args, detail, status_code)
    \/ Handled

SpecExceptions == Init /\ [][NextExceptions]_vars

\* ------------------------------------------------------------------ claims

\* path lies below the path prefix: prefix followed by "/" and at least one segment
StrictlyBelow(path, prefix) ==
    IF prefix = P_ROOT THEN Len(path) > 1 /\ path[1] = "/"
    ELSE /\ Len(path) > Len(prefix) + 1
         /\ SubSeq(path, 1, Len(prefix)) = prefix
         /\ path[Len(prefix) + 1] = "/"

\* The address of the node a route's path leads to: the plain-route key of a
\* parameter-free path, the trie node of the parameter-stripped path otherwise.
TargetNode(route, statics) ==
    IF Len(route.path_parameters) > 0 \/ route.path \in statics
    THEN PathComponents(route) ELSE <<route.path>>

\* The node the route leads to already carries another parameter descriptor list
HasConflict(rm, route, statics) ==
    LET a == TargetNode(route, statics)
    IN /\ a \in DOMAIN rm
       /\ Has(rm[a].path_parameters)
       /\ rm[a].path_parameters[1] # route.path_parameters

\* C1: a route whose parameter-stripped path leads to a node that already
\* carries a different path-parameter descriptor list is not recorded in the
\* registered set by any step, and every register call made while such a route
\* is in the route list raises ImproperlyConfiguredException.
C1_ConflictingParametersFail ==
    [][\A i \in 1..Len(routes') :
          HasConflict(route_map, RouteTable[routes'[i]], static_paths')
          => /\ i \notin registered'
             /\ (ncalls' # ncalls => raised' = ImproperlyConfiguredException)]_vars

\* A register call has just raised for a route that leads to the node of a
\* registered route with other parameters.
C1_Witness ==
    /\ raised = ImproperlyConfiguredException
    /\ Len(routes) >= 2
    /\ called = routes[Len(routes)]
    /\ Len(routes) \notin registered
    /\ HasConflict(route_map, Route(Len(routes)), static_paths)
    /\ \E j \in registered : node_of[j] = TargetNode(Route(Len(routes)), static_paths)

\* C2: a register call skips the routes already in the registered set (it
\* compiles no chain for them), and a repeated construction pass with every
\* route registered leaves the route map, the plain-route index, the registered
\* set and the compiled chains unchanged and compiles nothing.
C2_RegistrationIdempotent ==
    [][/\ (ncalls' # ncalls) =>
            \A k \in (Len(build_log) + 1)..Len(build_log') :
                build_log'[k][1] \notin registered
       /\ (ncalls' # ncalls /\ ncalls > 0 /\ routes' = routes
             /\ registered = 1..Len(routes))
          => /\ route_map' = route_map
             /\ plain_routes' = plain_routes
             /\ registered' = registered
             /\ build_log' = build_log
             /\ raised' = "none"]_vars

\* A construction pass with no new route has run after routes were registered.
C2_Witness ==
    /\ called = EmptyValue
    /\ ncalls >= 3
    /\ Len(routes) >= 2
    /\ registered = 1..Len(routes)

\* C3 (as claimed): once a static mount is registered at P, registering a route
\* whose path lies below P raises a configuration error, with or without
\* path parameters.
C3_RouteBelowStaticMountRaises ==
    [][\A value \in UserValues :
          (/\ routes' = Append(routes, value)
           /\ \E i \in registered :
                 /\ routes[i] \in StaticMounts
                 /\ StrictlyBelow(RouteTable[value].path, Route(i).path))
          => raised' = ImproperlyConfiguredException]_vars

\* C4 (as claimed): registering a static mount at P when a registered route
\* lies below P raises a configuration error, whatever the kind of route.
C4_StaticMountAboveRouteRaises ==
    [][\A value \in StaticMounts :
          (/\ routes' = Append(routes, value)
           /\ \E i \in registered :
                 StrictlyBelow(Route(i).path, RouteTable[value].path))
          => raised' = ImproperlyConfiguredException]_vars

\* The dispatch keys a route serves, and the handler it serves a key with
RouteKeys(route) ==
    CASE route.kind = "http" ->
             {route.route_handler_map[k][1] : k \in DOMAIN route.route_handler_map}
      [] route.kind = "websocket" -> {"websocket"}
      [] route.kind = "asgi" -> {"asgi"}

RouteHandlerFor(route, key) ==
    IF route.kind = "http"
    THEN LET k == CHOOSE n \in DOMAIN route.route_handler_map :
                      /\ route.route_handler_map[n][1] = key
                      /\ \A n2 \in DOMAIN route.route_handler_map :
                            route.route_handler_map[n2][1] = key => n2 <= n
         IN route.route_handler_map[k][2]
    ELSE route.route_handler

\* The non-empty segments of a path or path template, as written
Segments(path) == SelectSeq(SplitSlash(path, <<>>), LAMBDA c : Len(c) > 0)

\* A segment of a template that is a path parameter, {name:type}
IsParameter(segment) == segment[1] = "{"

\* A request path matches a path template: literal segments are equal, and a
\* parameter segment takes any value
Matches(request_path, template) ==
    LET rs == Segments(request_path)
        ts == Segments(template)
    IN /\ Len(rs) = Len(ts)
       /\ \A k \in DOMAIN ts : IsParameter(ts[k]) \/ ts[k] = rs[k]

\* Two routes of equal depth that differ at exactly one segment, where literal
\* has a literal and wildcard a path parameter
LiteralVsWildcard(literal, wildcard) ==
    LET ls == Segments(literal.path)
        ws == Segments(wildcard.path)
    IN /\ Len(ls) = Len(ws)
       /\ \E k \in DOMAIN ls :
             /\ ~IsParameter(ls[k]) /\ IsParameter(ws[k])
             /\ \A n \in DOMAIN ls \ {k} : ls[n] = ws[n]

\* C5: with a literal route and a parameterized route that differ at one
\* segment both registered, in either order, a request whose segment equals the
\* literal resolves to the literal route's node and a request with another value
\* there resolves to the parameterized route's node.
C5_LiteralBeatsWildcard ==
    response # <<>> =>
        LET r == response[1]
        IN \A i \in registered, j \in registered :
              LiteralVsWildcard(Route(i), Route(j)) =>
                 /\ Matches(r.path, Route(i).path) => r.node = <<node_of[i]>>
                 /\ (Matches(r.path, Route(j).path) /\ ~Matches(r.path, Route(i).path))
                    => r.node = <<node_of[j]>>

\* The wildcard route was registered first and a request with the literal
\* segment walked the trie to the literal route's node.
C5_Witness ==
    /\ response # <<>>
    /\ \E i \in registered, j \in registered :
          /\ j < i
          /\ LiteralVsWildcard(Route(i), Route(j))
          /\ Matches(response[1].path, Route(i).path)
          /\ response[1].via = "trie"
          /\ response[1].node = <<node_of[i]>>
          /\ response[1].status = 200

\* What C6 says of the registered routes in PlainRoutesIndexed(candidates)
PlainRoutesIndexed(candidates) ==
    \A i \in candidates :
        LET path == Route(i).path
        IN /\ path \in plain_routes
           /\ <<path>> \in DOMAIN route_map
           /\ node_of[i] = <<path>>
           /\ Has(route_map[<<path>>].asgi_handlers)
           /\ \A key \in RouteKeys(Route(i)) :
                 /\ key \in DOMAIN route_map[<<path>>].asgi_handlers[1]
                 /\ LET chain == route_map[<<path>>].asgi_handlers[1][key]
                    IN /\ chain.route \in registered
                       /\ Route(chain.route).path = path
                       /\ key \in RouteKeys(Route(chain.route))
                       /\ chain.handler = RouteHandlerFor(Route(chain.route), key)
           /\ (response # <<>> /\ response[1].path = path) =>
                 /\ response[1].via = "plain"
                 /\ response[1].node = <<<<path>>>>
                 /\ response[1].key \in RouteKeys(Route(i)) =>
                       /\ response[1].status = 200
                       /\ response[1].chain
                            = route_map[<<path>>].asgi_handlers[1][response[1].key]

C7_MethodNotAllowedVersusNotFound ==
    response # <<>> =>
        LET r == response[1]
            configured == Has(r.node) /\ Has(route_map[r.node[1]].asgi_handlers)
            missing_key == configured
                             /\ r.key \notin DOMAIN route_map[r.node[1]].asgi_handlers[1]
        IN /\ missing_key => r.status = 405
           /\ ~Has(r.node) => r.status = 404
           /\ r.status = 405 => missing_key
           /\ r.status = 404 => ~configured

\* A request reached a configured node that has no chain for its dispatch key.
C7_Witness ==
    /\ response # <<>>
    /\ response[1].status = 405
    /\ Has(response[1].node)
    /\ DOMAIN route_map[response[1].node[1]].asgi_handlers[1] # {}

\* The chain is: exception layer, mn .. m1, exception layer, route.handle
WellLayered(chain) ==
    LET h == Handlers[chain.handler]
        n == Len(h.middleware)
        exception_layer == [layer |-> "ExceptionHandlerMiddleware",
                            arg |-> h.exception_handlers]
    IN /\ Len(chain.stack) = n + 3
       /\ chain.stack[1] = exception_layer
       /\ \A k \in 1..n :
             chain.stack[1 + k] = [layer |-> "middleware", arg |-> h.middleware[n + 1 - k]]
       /\ chain.stack[n + 2] = exception_layer
       /\ chain.stack[n + 3].layer = "handle"
       /\ Cardinality({k \in DOMAIN chain.stack :
                          chain.stack[k].layer = "ExceptionHandlerMiddleware"}) = 2

\* The chains stored on the nodes of the route map
StoredChains ==
    UNION {{route_map[a].asgi_handlers[1][key] :
               key \in DOMAIN route_map[a].asgi_handlers[1]} :
           a \in {n \in DOMAIN route_map : Has(route_map[n].asgi_handlers)}}

\* C8: every compiled chain is, outermost first, an exception layer, the
\* handler's middleware from the last declared to the first, a second exception
\* layer and the route's handle, both exception layers with the handler's
\* resolved exception-handler mapping.
C8_ChainLayering ==
    \A chain \in StoredChains : WellLayered(chain)

\* A chain of a handler with three middleware is stored on a node.
C8_Witness ==
    \E chain \in StoredChains :
        /\ Len(Handlers[chain.handler].middleware) = 3
        /\ WellLayered(chain)

\* C9: an exception raised in the handle or in a middleware of a compiled chain
\* is translated by an exception layer of that chain, configured with the
\* handler's resolved mapping, and never by the application-level layer.
C9_RaisedInsideChainIsTranslated ==
    (response # <<>> /\ response[1].raise_at # 0) =>
        LET r == response[1]
        IN /\ r.translated_by.scope = "route"
           /\ r.translated_by.layer \in 1..(r.raise_at - 1)
           /\ r.chain.stack[r.translated_by.layer].layer = "ExceptionHandlerMiddleware"
           /\ r.translated_by.exception_handlers
                = Handlers[r.chain.handler].exception_handlers

\* A middleware of the chain raised while a request was handled.
C9_Witness ==
    /\ response # <<>>
    /\ response[1].raise_at # 0
    /\ response[1].chain.stack[response[1].raise_at].layer = "middleware"
    /\ response[1].translated_by.scope = "route"

\* C10 (as claimed): the middleware stack of a route and handler is built at
\* most once over any sequence of register calls.
C10_ChainBuiltOncePerRouteHandler ==
    \A k1 \in DOMAIN build_log, k2 \in DOMAIN build_log :
        build_log[k1] = build_log[k2] => k1 = k2

\* Every optional application-level layer is configured
AllLayersConfigured ==
    /\ Truthy(compression_config)
    /\ Truthy(allowed_hosts)
    /\ Truthy(cors_config)
    /\ Truthy(csrf_config)

\* C11 (as claimed): with every application-level layer configured, a request
\* that is not a lifespan event crosses compression, then trusted-host, then
\* CORS, then CSRF, then exception translation, then the dispatcher.
C11_CompressionOutermost ==
    (last_call # <<>> /\ last_call[1].scope.type # "lifespan" /\ AllLayersConfigured)
        => last_call[1].crossed
             = <<"CompressionMiddleware", "TrustedHostMiddleware", "CORSMiddleware",
                 "CSRFMiddleware", "ExceptionHandlerMiddleware", "asgi_router">>

\* C11 (amended): with every application-level layer configured, a request that
\* is not a lifespan event crosses exception translation, then CSRF, then CORS,
\* then trusted-host, then compression, then the dispatcher, whichever route
\* the dispatcher resolves.
C11_ExceptionLayerOutermost ==
    (last_call # <<>> /\ last_call[1].scope.type # "lifespan" /\ AllLayersConfigured)
        => last_call[1].crossed
             = <<"ExceptionHandlerMiddleware", "CSRFMiddleware", "CORSMiddleware",
                 "TrustedHostMiddleware", "CompressionMiddleware", "asgi_router">>

\* A request of the fully configured application reached a route's chain.
C11_Witness ==
    /\ last_call # <<>>
    /\ AllLayersConfigured
    /\ last_call[1].scope.type = "http"
    /\ last_call[1].routed[1].status = 200
    /\ Len(last_call[1].crossed) = 6

\* C12 (as claimed): a reader that takes no lock, running between the steps of
\* a register call, finds the path it resolves either not yet present or on a
\* consistent node: never a listed component without a child node, a plain
\* route without a node or without a handler map, or a torn node.
C12_ReadersSeeConsistentNodes ==
    observed # <<>> => observed[1].finding \in {"not_yet_present", "consistent"}

\* C13: a lifespan scope goes to the lifespan entry point and crosses no layer
\* of the root handler; any other scope goes through the root handler with an
\* empty request state in place of whatever the scope held; both carry the
\* application.
C13_LifespanBypassesRootHandler ==
    last_call # <<>> =>
        LET c == last_call[1]
        IN /\ c.scope.app = "self"
           /\ c.given.type = "lifespan" =>
                 /\ c.sent_to = "asgi_router.lifespan"
                 /\ c.crossed = <<>>
                 /\ c.routed = <<>>
           /\ c.given.type # "lifespan" =>
                 /\ c.sent_to = "asgi_handler"
                 /\ c.scope.state = "{}"
                 /\ Len(c.crossed) = Len(app_asgi_handler)
                 /\ c.routed # <<>>

\* A request arrived on a scope that still held another application and a
\* state, and was sent through the root handler.
C13_Witness ==
    /\ last_call # <<>>
    /\ last_call[1].given.type = "http"
    /\ last_call[1].given.state = "stale"
    /\ last_call[1].given.app = "other"
    /\ last_call[1].sent_to = "asgi_handler"

\* The routes a step tries to insert: those of the list after the step that
\* were not registered before it
Attempted(i) == i \in DOMAIN routes' /\ i \notin registered

\* C14: the path parameters of a node are set once, from a route inserted by
\* the step that sets them, and no later step changes them; every registered
\* route lies on a node whose path parameters are the route's own list.
C14_PathParametersSetOnce ==
    [][/\ \A a \in DOMAIN route_map :
             Has(route_map[a].path_parameters) =>
                 /\ a \in DOMAIN route_map'
                 /\ route_map'[a].path_parameters = route_map[a].path_parameters
       /\ \A a \in DOMAIN route_map' :
             (/\ Has(route_map'[a].path_parameters)
              /\ (a \in DOMAIN route_map => ~Has(route_map[a].path_parameters)))
                 => \E i \in DOMAIN routes' :
                       /\ Attempted(i)
                       /\ TargetNode(RouteTable[routes'[i]], static_paths') = a
                       /\ route_map'[a].path_parameters
                            = <<RouteTable[routes'[i]].path_parameters>>
       /\ \A i \in registered' :
             /\ i \in DOMAIN node_of'
             /\ node_of'[i] \in DOMAIN route_map'
             /\ route_map'[node_of'[i]].path_parameters
                  = <<RouteTable[routes'[i]].path_parameters>>]_vars

\* Two routes with path parameters are registered on one node.
C14_Witness ==
    \E i \in registered, j \in registered :
        /\ i < j
        /\ node_of[i] = node_of[j]
        /\ Len(Route(i).path_parameters) > 0
        /\ routes[i] # routes[j]

\* C15 (as claimed): no step removes a node, a plain route or a registered
\* route, and no step replaces the path parameters, the ASGI flag, the static
\* path or an existing handler entry of a node that was configured before it.
C15_ConfiguredNodesReadOnly ==
    [][/\ DOMAIN route_map \subseteq DOMAIN route_map'
       /\ plain_routes \subseteq plain_routes'
       /\ registered \subseteq registered'
       /\ \A a \in DOMAIN route_map :
             Has(route_map[a].asgi_handlers) =>
                 /\ route_map'[a].path_parameters = route_map[a].path_parameters
                 /\ route_map'[a].is_asgi = route_map[a].is_asgi
                 /\ route_map'[a].static_path = route_map[a].static_path
                 /\ \A key \in DOMAIN route_map[a].asgi_handlers[1] :
                       /\ key \in DOMAIN route_map'[a].asgi_handlers[1]
                       /\ route_map'[a].asgi_handlers[1][key]
                            = route_map[a].asgi_handlers[1][key]]_vars

\* The trie address a path template leads to: the root segment, then every
\* non-empty segment as written, a path parameter replaced by the wildcard
ExpectedLeaf(path) ==
    <<P_ROOT>> \o [k \in DOMAIN Segments(path) |->
                      IF IsParameter(Segments(path)[k]) THEN <<"*">>
                      ELSE Segments(path)[k]]

\* A route without path parameters that is not a static mount
IsPlain(value) ==
    Len(RouteTable[value].path_parameters) = 0 /\ value \notin StaticMounts

Beneath(address, ancestor) ==
    /\ Len(address) > Len(ancestor)
    /\ SubSeq(address, 1, Len(ancestor)) = ancestor

\* C17 (as claimed): while every registration has succeeded, no registered
\* route lies on a node beneath a node whose terminal-ASGI flag is set.
C17_NothingBeneathTerminalAsgi ==
    (\A i \in DOMAIN routes : i \in registered) =>
        \A a \in DOMAIN route_map :
            route_map[a].is_asgi = <<TRUE>> =>
                \A i \in registered : ~Beneath(node_of[i], a)

\* C18: the root handler holds the host-checking layer exactly when the list
\* of allowed hosts is not empty, the compression, CORS and CSRF layers exactly
\* when their configuration is given, each at most once, and always the
\* exception layer, outermost, with the application's handlers or an empty
\* mapping.
C18_LayersFollowConfiguration ==
    LET layers == {app_asgi_handler[k].layer : k \in DOMAIN app_asgi_handler}
        Count(cls) == Cardinality({k \in DOMAIN app_asgi_handler :
                                      app_asgi_handler[k].layer = cls})
    IN /\ "TrustedHostMiddleware" \in layers <=> allowed_hosts \notin {"None", "[]"}
       /\ "CompressionMiddleware" \in layers <=> compression_config # "None"
       /\ "CORSMiddleware" \in layers <=> cors_config # "None"
       /\ "CSRFMiddleware" \in layers <=> csrf_config # "None"
       /\ \A cls \in layers : Count(cls) = 1
       /\ app_asgi_handler[1].layer = "ExceptionHandlerMiddleware"
       /\ app_asgi_handler[1].arg
            = IF app_exception_handlers = "eh_app" THEN "eh_app" ELSE "{}"
       /\ app_asgi_handler[Len(app_asgi_handler)].layer = "asgi_router"

\* A request crossed the root handler of an application given an empty list of
\* allowed hosts, a compression configuration and no exception handlers.
C18_Witness ==
    /\ allowed_hosts = "[]"
    /\ compression_config # "None"
    /\ app_exception_handlers = "None"
    /\ last_call # <<>>
    /\ last_call[1].crossed
         = <<"ExceptionHandlerMiddleware">>
             \o (IF csrf_config # "None" THEN <<"CSRFMiddleware">> ELSE <<>>)
             \o (IF cors_config # "None" THEN <<"CORSMiddleware">> ELSE <<>>)
             \o <<"CompressionMiddleware", "asgi_router">>

\* The route a step inserts first: the first of the list that is not registered
FirstAttempted(i) == Attempted(i) /\ \A j \in 1..(i - 1) : j \in registered

\* C19 (as claimed): when a register call raises because the node of the route
\* it inserts carries other path parameters, every handler entry the node held
\* before the call is the same chain after it.
C19_ConflictLeavesChainsInPlace ==
    [][\A i \in DOMAIN routes' :
          (/\ FirstAttempted(i)
           /\ HasConflict(route_map, RouteTable[routes'[i]], static_paths')
           /\ raised' = ImproperlyConfiguredException)
              => LET a == TargetNode(RouteTable[routes'[i]], static_paths')
                 IN /\ Has(route_map'[a].asgi_handlers)
                    /\ \A key \in DOMAIN route_map[a].asgi_handlers[1] :
                          /\ key \in DOMAIN route_map'[a].asgi_handlers[1]
                          /\ route_map'[a].asgi_handlers[1][key]
                               = route_map[a].asgi_handlers[1][key]]_vars

\* C20: a register call that raises leaves a route in the list that is not
\* registered; and a register call made while such a route is in the list
\* raises, registers nothing, and builds no chain for a route listed after the
\* first route that is not registered.
C20_FailedRouteBlocksLaterRoutes ==
    [][(ncalls' = ncalls + 1) =>
          /\ raised' # "none" => \E i \in DOMAIN routes' : i \notin registered'
          /\ \A f \in DOMAIN routes :
                (f \notin registered /\ \A j \in 1..(f - 1) : j \in registered) =>
                    /\ raised' = ImproperlyConfiguredException
                    /\ registered' = registered
                    /\ SubSeq(routes', 1, Len(routes)) = routes
                    /\ \A j \in DOMAIN routes' : j > f => j \notin DOMAIN node_of'
                    /\ \A k \in DOMAIN build_log' : build_log'[k][1] <= f]_vars

\* A route was registered after another had failed: both are in the list and
\* neither is registered.
C20_Witness ==
    /\ phase = "serving"
    /\ raised = ImproperlyConfiguredException
    /\ \E f \in DOMAIN routes, j \in DOMAIN routes :
          /\ f < j
          /\ f \notin registered
          /\ j \notin registered
          /\ routes[j] # routes[f]
          /\ \A k \in DOMAIN build_log : build_log[k][1] # j

\* The registered routes that lie on the node at address a and serve key
ServedBy(a, key, reg, nodes, list) ==
    {i \in reg : nodes[i] = a /\ key \in RouteKeys(RouteTable[list[i]])}

\* C21: the step that registers a route on a node configured before adds the
\* route's dispatch keys to the node's handler map, stores the route's own chain
\* under each of them, and leaves every other entry as it was; and while no
\* route of the list is unregistered, the handler map of every node holds
\* exactly the dispatch keys of the routes registered on it, each with the
\* chain of the last of them that serves the key.
C21_HandlerMapIsUnionLastWins ==
    [][/\ \A i \in registered' \ registered :
             LET a == node_of'[i]
                 route == RouteTable[routes'[i]]
             IN (a \in DOMAIN route_map /\ Has(route_map[a].asgi_handlers)) =>
                    LET old == route_map[a].asgi_handlers[1]
                        new == route_map'[a].asgi_handlers[1]
                    IN /\ DOMAIN new = DOMAIN old \cup RouteKeys(route)
                       /\ \A key \in DOMAIN old \ RouteKeys(route) : new[key] = old[key]
                       /\ \A key \in RouteKeys(route) :
                             /\ new[key].route = i
                             /\ new[key].handler = RouteHandlerFor(route, key)
       /\ (\A j \in DOMAIN routes' : j \in registered') =>
             \A a \in DOMAIN route_map' :
                 Has(route_map'[a].asgi_handlers) =>
                     LET new == route_map'[a].asgi_handlers[1]
                     IN \A key \in DispatchKeys :
                           LET serving == ServedBy(a, key, registered', node_of', routes')
                           IN /\ key \in DOMAIN new <=> serving # {}
                              /\ key \in DOMAIN new =>
                                    \A i \in serving : i <= new[key].route
                                                       /\ new[key].route \in serving]_vars

\* A later route shares a dispatch key with an earlier route of its node and
\* does not serve a key another earlier route of the node holds.
C21_Witness ==
    \E i \in registered, j \in registered, k \in registered :
        /\ i < j /\ k < j
        /\ node_of[i] = node_of[j] /\ node_of[k] = node_of[j]
        /\ RouteKeys(Route(i)) \cap RouteKeys(Route(j)) # {}
        /\ RouteKeys(Route(k)) \ RouteKeys(Route(j)) # {}

\* The default status code of each category of HTTP exception
CategoryDefault(cls) ==
    CASE cls = "ValidationException" -> 400
      [] cls = "NotAuthorizedException" -> 401
      [] cls = "PermissionDeniedException" -> 403
      [] cls = "NotFoundException" -> 404
      [] cls = "MethodNotAllowedException" -> 405
      [] cls = "InternalServerException" -> 500
      [] cls = "ImproperlyConfiguredException" -> 500
      [] cls = "ServiceUnavailableException" -> 503
      [] cls = "HTTPException" -> 500

\* C22: the status code of an HTTP exception is the status code passed to the
\* constructor when one is passed and the default of its category otherwise;
\* its detail is the detail passed when that is not empty, otherwise the first
\* positional argument when there is one, otherwise the reason phrase of its
\* status code.
C22_StatusCodeAndDetail ==
    http_exception # <<>> =>
        LET g == http_exception[1].given
            e == http_exception[1].raised
            effective == IF g.status_code # <<>> THEN g.status_code[1]
                         ELSE CategoryDefault(g.cls)
        IN /\ e.status_code = effective
           /\ e.detail = IF g.detail \notin {<<>>, <<"">>} THEN g.detail[1]
                         ELSE IF g.args # <<>> THEN g.args[1]
                         ELSE Phrase(effective)

\* An exception was constructed with a status code of its own, a detail and a
\* positional argument.
C22_Witness ==
    /\ http_exception # <<>>
    /\ http_exception[1].given.cls = "NotFoundException"
    /\ http_exception[1].given.status_code = <<418>>
    /\ http_exception[1].given.detail = <<"explicit detail">>
    /\ http_exception[1].given.args = <<"first">>
    /\ http_exception[1].raised.status_code = 418
    /\ http_exception[1].raised.detail = "explicit detail"

\* The keys under which the node at address a has a child node
ChildKeys(rm, a) == {b[Len(b)] : b \in {c \in DOMAIN rm : Len(c) = Len(a) + 1
                                                          /\ SubSeq(c, 1, Len(a)) = a}}

\* C23: while no register call is under way, the components of every node of
\* the trie under "/" are the keys of its child nodes, and the components of
\* the route map itself hold nothing but "/": no path of a plain route other
\* than "/" is among them.
C23_ComponentsAreChildKeys ==
    (writer.pc = "idle" /\ <<>> \in DOMAIN route_map) =>
        /\ \A a \in DOMAIN route_map :
              (Len(a) > 0 /\ a[1] = P_ROOT) =>
                  route_map[a].components = ChildKeys(route_map, a)
        /\ route_map[<<>>].components \subseteq {P_ROOT}
        /\ \A path \in plain_routes \ {P_ROOT} :
              /\ path \notin route_map[<<>>].components
              /\ <<path>> \in DOMAIN route_map
              /\ route_map[<<path>>].components = {}

\* The trie has a node with two children beside a registered plain route.
C23_Witness ==
    /\ <<>> \in DOMAIN route_map
    /\ route_map[<<>>].components = {P_ROOT}
    /\ plain_routes \ {P_ROOT} # {}
    /\ \E a \in DOMAIN route_map :
          /\ Len(a) > 1
          /\ Cardinality(route_map[a].components) >= 2
          /\ Cardinality(ChildKeys(route_map, a)) >= 2

====
